---- MODULE Spec2Model ----
(***************************************************************************)
(* A model of network_mcp.py: the DeviceConnectionManager session cache,   *)
(* the worker-pool offload of the blocking session calls, and the exposed  *)
(* operations list_devices, show_version and discover_neighbors_*.         *)
(*                                                                         *)
(* Every operation runs as one asyncio task.  A task is suspended exactly  *)
(* while a blocking call (connect, disconnect, parse, execute) it has      *)
(* submitted with run_in_thread is in the worker pool; everything between  *)
(* two suspensions runs without interleaving on the event loop and is one  *)
(* action of the model.                                                    *)
(***************************************************************************)
EXTENDS Integers, Sequences, FiniteSets, TLC

\* ------------------------------------------------------------ bounds
NumTasks == 2
MaxOps == 3
MaxIndex == 2

Tasks == 1..NumTasks

\* ------------------------------------------------------------ values
\* Python's None, and the marker of a key that a mapping does not hold.
None == "<None>"
Absent == "<absent>"
\* Text is a sequence of characters; these two stand for a text-valued key
\* that is missing and for one that is present with the value None.
AbsentText == <<"<absent>">>
NoneText == <<"<None>">>
EmptyText == <<>>

Whitespace == {" ", "\n"}

\* str.split("\n")[0]: the characters before the first line break.
RECURSIVE FirstLine(_)
FirstLine(s) ==
    IF s = <<>> \/ Head(s) = "\n" THEN <<>> ELSE <<Head(s)>> \o FirstLine(Tail(s))

RECURSIVE LStrip(_)
LStrip(s) == IF s # <<>> /\ Head(s) \in Whitespace THEN LStrip(Tail(s)) ELSE s

RECURSIVE RStrip(_)
RStrip(s) ==
    IF s # <<>> /\ s[Len(s)] \in Whitespace THEN RStrip(SubSeq(s, 1, Len(s) - 1)) ELSE s

\* str.strip()
Strip(s) == RStrip(LStrip(s))

\* Python's `a or b`: b when a is falsy (None or the empty string).
PyOr(a, b) == IF a = None \/ a = "" THEN b ELSE a

\* dict.get(key, default) for a key modelled with the Absent marker.
GetOr(v, default) == IF v = Absent THEN default ELSE v

\* ------------------------------------------------------------ inventory
\* testbed.devices: the names the testbed file declares.
Known == {"r1", "r2"}
\* A name the testbed does not declare.
Unknown == {"zz"}
Names == Known \cup Unknown

\* testbed.devices[name]: the one device object of a name.  It is the value
\* get_connection stores and returns.
Device(name) == [device |-> name]

\* The descriptors list_devices reads.  cli = FALSE is a device without a
\* "cli" connection block: device.connections.cli raises AttributeError.
GoodDescriptor ==
    [os |-> "iosxe", type |-> "router", function |-> "core", cli |-> TRUE, ip |-> "10.0.0.1"]
BareDescriptor ==
    [os |-> None, type |-> None, function |-> Absent, cli |-> TRUE, ip |-> Absent]
NoCliDescriptor ==
    [os |-> "iosxe", type |-> "router", function |-> "core", cli |-> FALSE, ip |-> Absent]

GoodTestbed == [d \in Known |-> IF d = "r1" THEN GoodDescriptor ELSE BareDescriptor]
BrokenTestbed == [d \in Known |-> IF d = "r1" THEN GoodDescriptor ELSE NoCliDescriptor]

\* ------------------------------------------------------------ LLDP payloads
\* neighbor_info entries of "show lldp neighbors detail".
NbrA ==
    [system_name |-> "sw1", neighbor_id |-> None, port_id |-> "p1",
     port_description |-> None, management_address |-> Absent,
     system_description |-> AbsentText]
\* The same link as NbrA, named through the fallback keys.
NbrB ==
    [system_name |-> "", neighbor_id |-> "sw1", port_id |-> None,
     port_description |-> "p1", management_address |-> "10.0.0.1",
     system_description |-> <<"i", "\n", "c">>]
NbrC ==
    [system_name |-> "sw2", neighbor_id |-> None, port_id |-> "p1",
     port_description |-> None, management_address |-> Absent,
     system_description |-> <<"c">>]
\* system_description present with the value None: None.split raises.
NbrD ==
    [system_name |-> "sw1", neighbor_id |-> None, port_id |-> "p2",
     port_description |-> None, management_address |-> Absent,
     system_description |-> NoneText]
NeighborInfos == {NbrA, NbrB, NbrC, NbrD}

PortData(nbrs) == [has_neighbors |-> TRUE, neighbors |-> nbrs]
IntfData(ports) == [is_dict |-> TRUE, has_port_id |-> TRUE, port_id |-> ports]
\* An interface whose value is not a mapping: intf_data.get raises.
BadIntfData == [is_dict |-> FALSE, has_port_id |-> FALSE, port_id |-> <<>>]
Intf(name, data) == [local_intf |-> name, data |-> data]
LldpOutput(intfs) == [has_interfaces |-> TRUE, interfaces |-> intfs]

LldpShapes ==
    {[has_interfaces |-> FALSE, interfaces |-> <<>>],
     LldpOutput(<<Intf("Gi0/0", [is_dict |-> TRUE, has_port_id |-> FALSE, port_id |-> <<>>])>>),
     LldpOutput(<<Intf("Gi0/0", IntfData(<<[has_neighbors |-> FALSE, neighbors |-> <<>>]>>))>>)}
    \cup {LldpOutput(<<Intf(i, IntfData(<<PortData(<<e>>)>>))>>) :
            i \in {"Gi0/0", "Gi0/1"}, e \in NeighborInfos}
    \cup {LldpOutput(<<Intf("Gi0/0", IntfData(<<PortData(<<e1, e2>>)>>))>>) :
            e1 \in NeighborInfos, e2 \in NeighborInfos}
    \cup {LldpOutput(<<Intf("Gi0/0", IntfData(<<PortData(<<e1>>), PortData(<<e2>>)>>))>>) :
            e1 \in NeighborInfos, e2 \in NeighborInfos}
    \cup {LldpOutput(<<Intf("Gi0/0", IntfData(<<PortData(<<e1>>)>>)),
                       Intf("Gi0/1", IntfData(<<PortData(<<e2>>)>>))>>) :
            e1 \in NeighborInfos, e2 \in NeighborInfos}
    \cup {LldpOutput(<<Intf("Gi0/0", IntfData(<<PortData(<<e>>)>>)),
                       Intf("Gi0/1", BadIntfData)>>) : e \in NeighborInfos}

\* ------------------------------------------------------------ CDP payloads
\* Entries of the "index" of "show cdp neighbors detail".  management_addresses
\* is the sequence of the mapping's keys in iteration order.
CdpA ==
    [is_dict |-> TRUE, local_interface |-> "Gi0/0", device_id |-> "sw1", port_id |-> "p1",
     has_mgmt |-> TRUE, management_addresses |-> <<>>, platform |-> <<"c">>]
\* The same link as CdpA with other metadata.
CdpB ==
    [is_dict |-> TRUE, local_interface |-> "Gi0/0", device_id |-> "sw1", port_id |-> "p1",
     has_mgmt |-> TRUE, management_addresses |-> <<"10.0.0.2", "10.0.0.1">>,
     platform |-> <<" ", "c", "\n">>]
CdpC ==
    [is_dict |-> TRUE, local_interface |-> "Gi0/1", device_id |-> "sw2", port_id |-> None,
     has_mgmt |-> FALSE, management_addresses |-> <<>>, platform |-> AbsentText]
\* platform present with the value None: None.strip raises.
CdpD ==
    [is_dict |-> TRUE, local_interface |-> "Gi0/0", device_id |-> "sw2", port_id |-> "p1",
     has_mgmt |-> TRUE, management_addresses |-> <<"10.0.0.3">>, platform |-> NoneText]
\* An entry that is not a mapping: entry.get raises.
CdpE ==
    [is_dict |-> FALSE, local_interface |-> None, device_id |-> None, port_id |-> None,
     has_mgmt |-> FALSE, management_addresses |-> <<>>, platform |-> AbsentText]
\* The management addresses of CdpB in the other order, on another interface.
CdpF ==
    [is_dict |-> TRUE, local_interface |-> "Gi0/1", device_id |-> "sw1", port_id |-> "p1",
     has_mgmt |-> TRUE, management_addresses |-> <<"10.0.0.1", "10.0.0.2">>,
     platform |-> <<"c">>]
CdpEntries == {CdpA, CdpB, CdpC, CdpD, CdpE, CdpF}

CdpOutput(entries) == [has_index |-> TRUE, index |-> entries]

CdpShapes ==
    {[has_index |-> FALSE, index |-> <<>>]}
    \cup UNION {{CdpOutput(s) : s \in [1..n -> CdpEntries]} : n \in 0..MaxIndex}

\* ------------------------------------------------------------ outcomes
\* What a blocking call leaves in its future: a value, the parser's
\* SchemaEmptyParserError, or any other exception.
Ok(v) == [kind |-> "ok", val |-> v]
EmptyParse == [kind |-> "empty", val |-> "SchemaEmptyParserError"]
Fault(e) == [kind |-> "fault", val |-> e]

LldpOutcomes == {EmptyParse, Fault("ParseError")} \cup {Ok(p) : p \in LldpShapes}
CdpOutcomes == {EmptyParse, Fault("ParseError")} \cup {Ok(p) : p \in CdpShapes}

\* ------------------------------------------------------------ normalization
\* The record discover_neighbors_combined appends for one LLDP neighbor entry.
LldpRecord(local_intf, info) ==
    [protocol |-> "lldp",
     local_interface |-> local_intf,
     remote_device |-> PyOr(info.system_name, info.neighbor_id),
     remote_interface |-> PyOr(info.port_id, info.port_description),
     management_address |-> GetOr(info.management_address, "unknown"),
     platform |-> FirstLine(IF info.system_description = AbsentText
                            THEN EmptyText ELSE info.system_description)]

\* The record discover_neighbors_lldp appends: no metadata is read.
LldpBasicRecord(local_intf, info) ==
    [protocol |-> "lldp",
     local_interface |-> local_intf,
     remote_device |-> PyOr(info.system_name, info.neighbor_id),
     remote_interface |-> PyOr(info.port_id, info.port_description)]

\* The loops below carry acc = [neighbors, raised]: the list appended to so
\* far, and whether an exception has left the loops.  `full` selects the
\* record of discover_neighbors_combined over that of discover_neighbors_lldp.
RECURSIVE LldpNeighborsLoop(_, _, _, _)
LldpNeighborsLoop(local_intf, neighbors, acc, full) ==
    IF acc.raised \/ neighbors = <<>> THEN acc
    ELSE LET info == Head(neighbors) IN
         IF full /\ info.system_description = NoneText
         THEN [acc EXCEPT !.raised = TRUE]
         ELSE LldpNeighborsLoop(local_intf, Tail(neighbors),
                  [acc EXCEPT !.neighbors =
                      Append(@, IF full THEN LldpRecord(local_intf, info)
                                ELSE LldpBasicRecord(local_intf, info))],
                  full)

RECURSIVE LldpPortsLoop(_, _, _, _)
LldpPortsLoop(local_intf, ports, acc, full) ==
    IF acc.raised \/ ports = <<>> THEN acc
    ELSE LET port_data == Head(ports)
             neighbors == IF port_data.has_neighbors THEN port_data.neighbors ELSE <<>>
         IN LldpPortsLoop(local_intf, Tail(ports),
                LldpNeighborsLoop(local_intf, neighbors, acc, full), full)

RECURSIVE LldpInterfacesLoop(_, _, _)
LldpInterfacesLoop(intfs, acc, full) ==
    IF acc.raised \/ intfs = <<>> THEN acc
    ELSE LET intf_data == Head(intfs).data IN
         IF ~intf_data.is_dict
         THEN [acc EXCEPT !.raised = TRUE]
         ELSE LldpInterfacesLoop(Tail(intfs),
                  LldpPortsLoop(Head(intfs).local_intf,
                      IF intf_data.has_port_id THEN intf_data.port_id ELSE <<>>,
                      acc, full),
                  full)

\* `if "interfaces" in lldp_output: for ... append`, from an empty list.
LldpExtract(lldp_output, full) ==
    IF lldp_output.has_interfaces
    THEN LldpInterfacesLoop(lldp_output.interfaces, [neighbors |-> <<>>, raised |-> FALSE], full)
    ELSE [neighbors |-> <<>>, raised |-> FALSE]

\* mgmt_ips[0] if mgmt_ips else "unknown", mgmt_ips the keys in iteration order.
CdpManagementAddress(entry) ==
    LET mgmt_ips == IF entry.has_mgmt THEN entry.management_addresses ELSE <<>>
    IN IF mgmt_ips # <<>> THEN mgmt_ips[1] ELSE "unknown"

\* The record discover_neighbors_combined appends for one CDP entry.
CdpRecord(entry) ==
    [protocol |-> "cdp",
     local_interface |-> entry.local_interface,
     remote_device |-> entry.device_id,
     remote_interface |-> entry.port_id,
     management_address |-> CdpManagementAddress(entry),
     platform |-> Strip(IF entry.platform = AbsentText THEN EmptyText ELSE entry.platform)]

\* The record discover_neighbors_cdp appends.
CdpBasicRecord(entry) ==
    [protocol |-> "cdp",
     local_interface |-> entry.local_interface,
     remote_device |-> entry.device_id,
     remote_interface |-> entry.port_id]

RECURSIVE CdpIndexLoop(_, _, _)
CdpIndexLoop(entries, acc, full) ==
    IF acc.raised \/ entries = <<>> THEN acc
    ELSE LET entry == Head(entries) IN
         IF ~entry.is_dict \/ (full /\ entry.platform = NoneText)
         THEN [acc EXCEPT !.raised = TRUE]
         ELSE CdpIndexLoop(Tail(entries),
                  [acc EXCEPT !.neighbors =
                      Append(@, IF full THEN CdpRecord(entry) ELSE CdpBasicRecord(entry))],
                  full)

\* `if "index" in cdp_output: for ... append`, from an empty list.
CdpExtract(cdp_output, full) ==
    IF cdp_output.has_index
    THEN CdpIndexLoop(cdp_output.index, [neighbors |-> <<>>, raised |-> FALSE], full)
    ELSE [neighbors |-> <<>>, raised |-> FALSE]

\* ------------------------------------------------------------ merge + dedup
\* The key of the dedup scan.
NeighborKey(neighbor) ==
    <<neighbor.local_interface, neighbor.remote_device, neighbor.remote_interface>>

RECURSIVE DedupLoop(_, _, _)
DedupLoop(combined, unique_set, deduped) ==
    IF combined = <<>> THEN deduped
    ELSE LET neighbor == Head(combined)
             key == NeighborKey(neighbor)
         IN IF key \notin unique_set
            THEN DedupLoop(Tail(combined), unique_set \cup {key}, Append(deduped, neighbor))
            ELSE DedupLoop(Tail(combined), unique_set, deduped)

DeduplicateNothing(lldp_neighbors, cdp_neighbors) == lldp_neighbors \o cdp_neighbors

DeduplicateCdpFirst(lldp_neighbors, cdp_neighbors) ==
    DedupLoop(cdp_neighbors \o lldp_neighbors, {}, <<>>)

\* combined = lldp_neighbors + cdp_neighbors, then the scan.
Deduplicate(lldp_neighbors, cdp_neighbors) ==
    DedupLoop(lldp_neighbors \o cdp_neighbors, {}, <<>>)

\* ------------------------------------------------------------ state
VARIABLES
    connections,    \* DeviceConnectionManager._connections: name -> device object
    live,           \* per device, the sessions opened by connect and not yet closed
    tasks,          \* per task: the operation it runs, where it is, its locals
    testbed,        \* the inventory loaded at start-up
    topology,       \* what the devices' parsers answer to the two discovery commands
    lastReturned    \* per device, the session get_connection last returned, reset
                    \* by every step of cleanup_connection for that name

vars == <<connections, live, tasks, testbed, topology, lastReturned>>

NoDevice == [device |-> "<none>"]
NoCall == [fn |-> "none", cmd |-> "none", st |-> "none", out |-> [kind |-> "none", val |-> "none"]]
NoResult == [none |-> TRUE]

\* What a task remembers of the operation it ran before the current one.
NoPrevious == [op |-> "none", arg |-> "", result |-> NoResult, log |-> <<>>]

IdleTask ==
    [op |-> "none", arg |-> "", pc |-> "idle", call |-> NoCall, device |-> NoDevice,
     lldp_neighbors |-> <<>>, cdp_neighbors |-> <<>>, lldp_end |-> "none", cdp_end |-> "none",
     status |-> "none", result |-> NoResult, log |-> <<>>, opsDone |-> 0,
     previous |-> NoPrevious]

\* A task that begins operation op(arg): fresh locals, nothing called yet.
Fresh(tk, op, arg) ==
    [IdleTask EXCEPT !.op = op, !.arg = arg, !.pc = "run", !.opsDone = tk.opsDone + 1]

\* The task fresh, whose caller kept the answer of the combined discovery
\* that tk ran just before, if that is what tk ran.
Remember(fresh, tk) ==
    IF tk.op = fresh.op
    THEN [fresh EXCEPT !.previous = [op |-> tk.op, arg |-> tk.arg, result |-> tk.result,
                                     log |-> tk.log]]
    ELSE fresh

\* The operations started so far by tasks 1..n.
RECURSIVE OpsStarted(_)
OpsStarted(n) == IF n = 0 THEN 0 ELSE tasks[n].opsDone + OpsStarted(n - 1)

\* A task that runs no operation may start one, while the run holds fewer
\* than MaxOps operations.
CanStart(t) == tasks[t].pc \in {"idle", "done"} /\ OpsStarted(NumTasks) < MaxOps

\* await run_in_thread(fn, cmd): the call goes to the worker pool and the
\* task is suspended at pc until the call's future is done.
Submit(tk, pc, fn, cmd) ==
    [tk EXCEPT !.pc = pc,
               !.call = [fn |-> fn, cmd |-> cmd, st |-> "running", out |-> NoCall.out],
               !.log = Append(@, fn)]

\* The operation returns res to its caller.
Return(tk, res) ==
    [tk EXCEPT !.pc = "done", !.call = NoCall, !.status = "returned", !.result = res]

\* The exception e leaves the operation.
Raise(tk, e) ==
    [tk EXCEPT !.pc = "done", !.call = NoCall, !.status = "raised",
               !.result = [exception |-> e]]

Failure(msg) == [success |-> FALSE, error |-> msg]

\* ------------------------------------------------------------ get_connection
NotCachedEver(conns, device_name) == TRUE

\* `device_name not in self._connections` of get_connection.
NotCached(conns, device_name) == device_name \notin DOMAIN conns

\* self._connections[device_name] = device
Insert(conns, device_name, device) ==
    [n \in DOMAIN conns \cup {device_name} |-> IF n = device_name THEN device ELSE conns[n]]

DeleteAll(conns, device_name) == [n \in {} |-> conns[n]]

\* del self._connections[device_name]
Delete(conns, device_name) == [n \in DOMAIN conns \ {device_name} |-> conns[n]]

AfterGetConnectionCdpFirst(tk, device) ==
    LET got == [tk EXCEPT !.device = device] IN
    CASE tk.op = "get_connection" -> Return(got, [session |-> device])
      [] tk.op = "show_version" -> Submit(got, "parse", "parse", "show version")
      [] tk.op = "discover_neighbors_lldp" ->
            Submit(got, "parse", "parse", "show lldp neighbors detail")
      [] tk.op = "discover_neighbors_cdp" ->
            Submit(got, "parse", "parse", "show cdp neighbors detail")
      [] tk.op = "discover_neighbors_combined" ->
            Submit(got, "cdp", "parse", "show cdp neighbors detail")

\* What the caller of `device = await connection_manager.get_connection(name)`
\* does once the session is returned, up to its next suspension.
AfterGetConnection(tk, device) ==
    LET got == [tk EXCEPT !.device = device] IN
    CASE tk.op = "get_connection" -> Return(got, [session |-> device])
      [] tk.op = "show_version" -> Submit(got, "parse", "parse", "show version")
      [] tk.op = "discover_neighbors_lldp" ->
            Submit(got, "parse", "parse", "show lldp neighbors detail")
      [] tk.op = "discover_neighbors_cdp" ->
            Submit(got, "parse", "parse", "show cdp neighbors detail")
      [] tk.op = "discover_neighbors_combined" ->
            Submit(got, "lldp", "parse", "show lldp neighbors detail")

\* What the caller does when get_connection raises e: show_version's outer
\* handler, the discovery operations' `except Exception`, or nothing at all
\* for a direct call.
GetConnectionRaised(tk, e) ==
    CASE tk.op = "get_connection" -> Raise(tk, e)
      [] tk.op = "show_version" ->
            Return(tk, Failure(<<"Connection or execution error: ", e>>))
      [] OTHER -> Return(tk, Failure(<<e>>))

\* get_connection up to its suspension: a hit returns the cached object at
\* once; a miss looks the device up (KeyError for an unknown name) and
\* submits connect.
EnterGetConnection(tk, device_name) ==
    IF ~NotCached(connections, device_name)
    THEN AfterGetConnection(tk, connections[device_name])
    ELSE IF device_name \notin Known
         THEN GetConnectionRaised(tk, "KeyError")
         ELSE Submit(tk, "connect", "connect", "")

\* lastReturned after a step that took a task with no session yet to tk.
NoteReturned(tk, device_name) ==
    IF tk.device # NoDevice
    THEN [lastReturned EXCEPT ![device_name] = tk.device]
    ELSE lastReturned

\* lastReturned after a step of cleanup_connection(device_name).
Forgotten(device_name) ==
    [d \in Known |-> IF d = device_name THEN NoDevice ELSE lastReturned[d]]

\* A direct call of DeviceConnectionManager.get_connection.
GetConnection(t, device_name) ==
    /\ CanStart(t)
    /\ LET tk == EnterGetConnection(Fresh(tasks[t], "get_connection", device_name), device_name)
       IN /\ tasks' = [tasks EXCEPT ![t] = tk]
          /\ lastReturned' = NoteReturned(tk, device_name)
    /\ UNCHANGED <<connections, live, testbed, topology>>

GetConnectionResumeCachesFirst(t) ==
    /\ tasks[t].pc = "connect"
    /\ tasks[t].call.st = "done"
    /\ LET device_name == tasks[t].arg
           out == tasks[t].call.out
           stored == Insert(connections, device_name, Device(device_name))
           tk == IF out.kind = "ok"
                 THEN AfterGetConnection(tasks[t], stored[device_name])
                 ELSE GetConnectionRaised(tasks[t], out.val)
       IN /\ connections' = stored
          /\ tasks' = [tasks EXCEPT ![t] = tk]
          /\ lastReturned' = NoteReturned(tk, device_name)
    /\ UNCHANGED <<live, testbed, topology>>

\* The connect call is done and the awaiting get_connection goes on: it
\* stores the device object and returns the cached value, or lets the
\* exception of connect through.
GetConnectionResume(t) ==
    /\ tasks[t].pc = "connect"
    /\ tasks[t].call.st = "done"
    /\ LET device_name == tasks[t].arg
           out == tasks[t].call.out
           stored == Insert(connections, device_name, Device(device_name))
           tk == IF out.kind = "ok"
                 THEN AfterGetConnection(tasks[t], stored[device_name])
                 ELSE GetConnectionRaised(tasks[t], out.val)
       IN /\ connections' = IF out.kind = "ok" THEN stored ELSE connections
          /\ tasks' = [tasks EXCEPT ![t] = tk]
          /\ lastReturned' = NoteReturned(tk, device_name)
    /\ UNCHANGED <<live, testbed, topology>>

\* ------------------------------------------------------------ cleanup_connection
\* `device_name in self._connections` of cleanup_connection.
CachedForCleanup(conns, device_name) == device_name \in DOMAIN conns

\* cleanup_connection up to its suspension.
CleanupConnection(t, device_name) ==
    /\ CanStart(t)
    /\ LET fresh == Fresh(tasks[t], "cleanup_connection", device_name)
       IN tasks' = [tasks EXCEPT ![t] =
              IF CachedForCleanup(connections, device_name)
              THEN Submit(fresh, "disconnect", "disconnect", "")
              ELSE Return(fresh, [value |-> None])]
    /\ lastReturned' = Forgotten(device_name)
    /\ UNCHANGED <<connections, live, testbed, topology>>

\* The disconnect call is done: `del self._connections[device_name]`, which
\* raises KeyError when another cleanup has removed the entry meanwhile; an
\* exception of disconnect leaves the entry in place.
CleanupResume(t) ==
    /\ tasks[t].pc = "disconnect"
    /\ tasks[t].call.st = "done"
    /\ LET device_name == tasks[t].arg
           out == tasks[t].call.out
           present == device_name \in DOMAIN connections
       IN /\ connections' = IF out.kind = "ok" /\ present
                            THEN Delete(connections, device_name) ELSE connections
          /\ tasks' = [tasks EXCEPT ![t] =
                 IF out.kind # "ok" THEN Raise(tasks[t], out.val)
                 ELSE IF present THEN Return(tasks[t], [value |-> None])
                 ELSE Raise(tasks[t], "KeyError")]
          /\ lastReturned' = Forgotten(device_name)
    /\ UNCHANGED <<live, testbed, topology>>

\* ------------------------------------------------------------ worker pool
\* run_in_thread: a pool thread runs the blocking call to its end and sets
\* the future.  The session calls belong to the device library; each ends by
\* returning or by raising.
Done(tk, out) == [tk EXCEPT !.call.st = "done", !.call.out = out]

Running(t, fn) == tasks[t].call.fn = fn /\ tasks[t].call.st = "running"

WorkerConnect(t) ==
    /\ Running(t, "connect")
    /\ \E out \in {Ok("connected"), Fault("ConnectionError")} :
          /\ tasks' = [tasks EXCEPT ![t] = Done(@, out)]
          /\ live' = IF out.kind = "ok"
                     THEN [live EXCEPT ![tasks[t].arg] = @ + 1] ELSE live
    /\ UNCHANGED <<connections, testbed, topology, lastReturned>>

WorkerDisconnect(t) ==
    /\ Running(t, "disconnect")
    /\ \E out \in {Ok("disconnected"), Fault("DisconnectError")} :
          /\ tasks' = [tasks EXCEPT ![t] = Done(@, out)]
          /\ live' = IF out.kind = "ok" /\ live[tasks[t].arg] > 0
                     THEN [live EXCEPT ![tasks[t].arg] = @ - 1] ELSE live
    /\ UNCHANGED <<connections, testbed, topology, lastReturned>>

VersionOutcomes == {Ok([version |-> "17.3"]), EmptyParse, Fault("ParseError")}

ParseOutcomes(cmd) ==
    CASE cmd = "show version" -> VersionOutcomes
      [] cmd = "show lldp neighbors detail" -> {topology.lldp}
      [] cmd = "show cdp neighbors detail" -> {topology.cdp}

WorkerParse(t) ==
    /\ Running(t, "parse")
    /\ \E out \in ParseOutcomes(tasks[t].call.cmd) :
          tasks' = [tasks EXCEPT ![t] = Done(@, out)]
    /\ UNCHANGED <<connections, live, testbed, topology, lastReturned>>

WorkerExecute(t) ==
    /\ Running(t, "execute")
    /\ \E out \in {Ok("raw text"), Fault("ExecuteError")} :
          tasks' = [tasks EXCEPT ![t] = Done(@, out)]
    /\ UNCHANGED <<connections, live, testbed, topology, lastReturned>>

\* ------------------------------------------------------------ list_devices
NotInTestbedNever(device_name) == FALSE

\* `device_name not in testbed.devices`
NotInTestbed(device_name) == device_name \notin Known

\* The entry list_devices builds for one device.
DeviceEntry(desc) ==
    [os |-> PyOr(desc.os, "unknown"),
     type |-> PyOr(desc.type, "unknown"),
     function |-> GetOr(desc.function, "unknown"),
     management_ip |-> GetOr(desc.ip, "unknown")]

\* The whole of list_devices: the loop over testbed.devices, and the handler
\* of whatever it raises.
ListDevicesResult(tb) ==
    IF \E d \in DOMAIN tb : ~tb[d].cli
    THEN [error |-> <<"Failed to list devices: ", "AttributeError">>]
    ELSE [devices |-> [d \in DOMAIN tb |-> DeviceEntry(tb[d])]]

ListDevices(t) ==
    /\ CanStart(t)
    /\ tasks' = [tasks EXCEPT ![t] =
           Return(Fresh(tasks[t], "list_devices", ""), ListDevicesResult(testbed))]
    /\ UNCHANGED <<connections, live, testbed, topology, lastReturned>>

\* ------------------------------------------------------------ show_version
\* show_version's answer to a name the testbed does not hold.
ShowVersionNotFound(device_name) == [error |-> <<"Device not found: ", device_name>>]

ShowVersion(t, device_name) ==
    /\ CanStart(t)
    /\ LET fresh == Fresh(tasks[t], "show_version", device_name)
           tk == IF NotInTestbed(device_name)
                 THEN Return(fresh, ShowVersionNotFound(device_name))
                 ELSE EnterGetConnection(fresh, device_name)
       IN /\ tasks' = [tasks EXCEPT ![t] = tk]
          /\ lastReturned' = NoteReturned(tk, device_name)
    /\ UNCHANGED <<connections, live, testbed, topology>>

ShowVersionAfterParseKeepsData(tk, out) ==
    CASE out.kind = "ok" -> Return(tk, [success |-> TRUE, data |-> out.val])
      [] out.kind = "empty" -> Submit(tk, "execute", "execute", "show version")
      [] OTHER -> Return(tk, [success |-> FALSE, error |-> <<out.val>>, data |-> None])

ShowVersionAfterParseAlwaysFallsBack(tk, out) ==
    IF out.kind = "ok"
    THEN Return(tk, [success |-> TRUE, data |-> out.val])
    ELSE Submit(tk, "execute", "execute", "show version")

\* The inner try of show_version once device.parse is done.
ShowVersionAfterParse(tk, out) ==
    CASE out.kind = "ok" -> Return(tk, [success |-> TRUE, data |-> out.val])
      [] out.kind = "empty" -> Submit(tk, "execute", "execute", "show version")
      [] OTHER -> Return(tk, Failure(<<out.val>>))

ShowVersionAfterExecuteUncaught(tk, out) ==
    IF out.kind = "ok"
    THEN Return(tk, [success |-> TRUE, data |-> [raw_output |-> out.val],
                     note |-> "Could not parse, returning raw output"])
    ELSE Raise(tk, out.val)

\* The fallback once device.execute is done.  An exception raised here is
\* raised inside the SchemaEmptyParserError handler, so it passes the inner
\* `except Exception` and reaches the outer one.
ShowVersionAfterExecute(tk, out) ==
    IF out.kind = "ok"
    THEN Return(tk, [success |-> TRUE, data |-> [raw_output |-> out.val],
                     note |-> "Could not parse, returning raw output"])
    ELSE Return(tk, Failure(<<"Connection or execution error: ", out.val>>))

ShowVersionParsed(t) ==
    /\ tasks[t].op = "show_version" /\ tasks[t].pc = "parse" /\ tasks[t].call.st = "done"
    /\ tasks' = [tasks EXCEPT ![t] = ShowVersionAfterParse(@, @.call.out)]
    /\ UNCHANGED <<connections, live, testbed, topology, lastReturned>>

ShowVersionExecuted(t) ==
    /\ tasks[t].op = "show_version" /\ tasks[t].pc = "execute" /\ tasks[t].call.st = "done"
    /\ tasks' = [tasks EXCEPT ![t] = ShowVersionAfterExecute(@, @.call.out)]
    /\ UNCHANGED <<connections, live, testbed, topology, lastReturned>>

\* ------------------------------------------------------------ discover_neighbors_lldp / _cdp
\* The discovery operations' answer to a name the testbed does not hold.
DiscoverNotFound(device_name) == Failure(<<"Device not found: ", device_name>>)

\* A discovery operation up to its first suspension.
DiscoverEnter(fresh, device_name) ==
    IF NotInTestbed(device_name)
    THEN Return(fresh, DiscoverNotFound(device_name))
    ELSE EnterGetConnection(fresh, device_name)

DiscoverLldp(t, device_name) ==
    /\ CanStart(t)
    /\ LET tk == DiscoverEnter(Fresh(tasks[t], "discover_neighbors_lldp", device_name),
                               device_name)
       IN /\ tasks' = [tasks EXCEPT ![t] = tk]
          /\ lastReturned' = NoteReturned(tk, device_name)
    /\ UNCHANGED <<connections, live, testbed, topology>>

DiscoverCdp(t, device_name) ==
    /\ CanStart(t)
    /\ LET tk == DiscoverEnter(Fresh(tasks[t], "discover_neighbors_cdp", device_name),
                               device_name)
       IN /\ tasks' = [tasks EXCEPT ![t] = tk]
          /\ lastReturned' = NoteReturned(tk, device_name)
    /\ UNCHANGED <<connections, live, testbed, topology>>

DiscoverCombined(t, device_name) ==
    /\ CanStart(t)
    /\ LET fresh == Fresh(tasks[t], "discover_neighbors_combined", device_name)
           tk == DiscoverEnter(Remember(fresh, tasks[t]), device_name)
       IN /\ tasks' = [tasks EXCEPT ![t] = tk]
          /\ lastReturned' = NoteReturned(tk, device_name)
    /\ UNCHANGED <<connections, live, testbed, topology>>

\* The result of a single-protocol discovery from the outcome of its parse
\* call and the extraction ext of the payload.
SingleResult(tk, out, ext) ==
    CASE out.kind = "empty" -> [success |-> TRUE, device |-> tk.arg, neighbors |-> <<>>]
      [] out.kind = "fault" -> Failure(<<out.val>>)
      [] out.kind = "ok" /\ ext.raised -> Failure(<<"AttributeError">>)
      [] OTHER -> [success |-> TRUE, device |-> tk.arg, neighbors |-> ext.neighbors]

NoExtract == [neighbors |-> <<>>, raised |-> FALSE]

LldpAfterParse(tk, out) ==
    Return(tk, SingleResult(tk, out,
        IF out.kind = "ok" THEN LldpExtract(out.val, FALSE) ELSE NoExtract))

CdpAfterParse(tk, out) ==
    Return(tk, SingleResult(tk, out,
        IF out.kind = "ok" THEN CdpExtract(out.val, FALSE) ELSE NoExtract))

LldpParsed(t) ==
    /\ tasks[t].op = "discover_neighbors_lldp" /\ tasks[t].pc = "parse"
    /\ tasks[t].call.st = "done"
    /\ tasks' = [tasks EXCEPT ![t] = LldpAfterParse(@, @.call.out)]
    /\ UNCHANGED <<connections, live, testbed, topology, lastReturned>>

CdpParsed(t) ==
    /\ tasks[t].op = "discover_neighbors_cdp" /\ tasks[t].pc = "parse"
    /\ tasks[t].call.st = "done"
    /\ tasks' = [tasks EXCEPT ![t] = CdpAfterParse(@, @.call.out)]
    /\ UNCHANGED <<connections, live, testbed, topology, lastReturned>>

\* ------------------------------------------------------------ discover_neighbors_combined
\* How a protocol's stage ended: its parse call and its loops ran through
\* ("ok"), the parser signalled empty-parse ("empty"), or something raised.
StageEnd(out, ext) ==
    CASE out.kind = "empty" -> "empty"
      [] out.kind = "fault" -> "fault"
      [] out.kind = "ok" /\ ext.raised -> "fault"
      [] OTHER -> "ok"

\* The LLDP stage once its parse call is done.  The records are appended to
\* lldp_neighbors one by one, so what was appended before an exception stays
\* in the list; both handlers then let the operation go on to the CDP stage.
CombinedAfterLldp(tk, out) ==
    LET ext == IF out.kind = "ok" THEN LldpExtract(out.val, TRUE) ELSE NoExtract
    IN Submit([tk EXCEPT !.lldp_neighbors = ext.neighbors, !.lldp_end = StageEnd(out, ext)],
              "cdp", "parse", "show cdp neighbors detail")

CombinedAfterCdpSharedSet(tk, out) ==
    LET ext == IF out.kind = "ok" THEN CdpExtract(out.val, TRUE) ELSE NoExtract
        seen == IF "neighbors" \in DOMAIN tk.previous.result
                THEN {NeighborKey(tk.previous.result.neighbors[i]) :
                        i \in 1..Len(tk.previous.result.neighbors)}
                ELSE {}
        deduped == DedupLoop(tk.lldp_neighbors \o ext.neighbors, seen, <<>>)
    IN Return([tk EXCEPT !.cdp_neighbors = ext.neighbors, !.cdp_end = StageEnd(out, ext)],
              [success |-> TRUE, device |-> tk.arg, neighbors |-> deduped,
               total_neighbors |-> Len(deduped)])

\* The CDP stage once its parse call is done, then merge, dedup and return.
CombinedAfterCdp(tk, out) ==
    LET ext == IF out.kind = "ok" THEN CdpExtract(out.val, TRUE) ELSE NoExtract
        deduped == Deduplicate(tk.lldp_neighbors, ext.neighbors)
    IN Return([tk EXCEPT !.cdp_neighbors = ext.neighbors, !.cdp_end = StageEnd(out, ext)],
              [success |-> TRUE, device |-> tk.arg, neighbors |-> deduped,
               total_neighbors |-> Len(deduped)])

CombinedLldpParsed(t) ==
    /\ tasks[t].op = "discover_neighbors_combined" /\ tasks[t].pc = "lldp"
    /\ tasks[t].call.st = "done"
    /\ tasks' = [tasks EXCEPT ![t] = CombinedAfterLldp(@, @.call.out)]
    /\ UNCHANGED <<connections, live, testbed, topology, lastReturned>>

CombinedCdpParsed(t) ==
    /\ tasks[t].op = "discover_neighbors_combined" /\ tasks[t].pc = "cdp"
    /\ tasks[t].call.st = "done"
    /\ tasks' = [tasks EXCEPT ![t] = CombinedAfterCdp(@, @.call.out)]
    /\ UNCHANGED <<connections, live, testbed, topology, lastReturned>>

\* ------------------------------------------------------------ specifications
\* The topologies of the concurrent specification: a link seen by both
\* protocols, the two signals, and payloads whose normalization raises.
SmallWorlds ==
    {<<GoodTestbed, [lldp |-> Ok(LldpOutput(<<Intf("Gi0/0", IntfData(<<PortData(<<NbrA>>)>>))>>)),
                     cdp |-> Ok(CdpOutput(<<CdpA>>))]>>,
     <<GoodTestbed, [lldp |-> EmptyParse, cdp |-> Fault("ParseError")]>>,
     <<BrokenTestbed, [lldp |-> Ok(LldpOutput(<<Intf("Gi0/0", IntfData(<<PortData(<<NbrC>>)>>)),
                                                Intf("Gi0/1", BadIntfData)>>)),
                       cdp |-> Ok(CdpOutput(<<CdpC, CdpE>>))]>>}

InitCommon ==
    /\ connections = [n \in {} |-> NoDevice]
    /\ live = [d \in Known |-> 0]
    /\ tasks = [t \in Tasks |-> IdleTask]
    /\ lastReturned = [d \in Known |-> NoDevice]

Init ==
    /\ InitCommon
    /\ \E w \in SmallWorlds : testbed = w[1] /\ topology = w[2]

Next ==
    \E t \in Tasks :
        \/ \E n \in Names :
              \/ GetConnection(t, n)
              \/ CleanupConnection(t, n)
              \/ ShowVersion(t, n)
              \/ DiscoverLldp(t, n)
              \/ DiscoverCdp(t, n)
              \/ DiscoverCombined(t, n)
        \/ ListDevices(t)
        \/ GetConnectionResume(t)
        \/ CleanupResume(t)
        \/ WorkerConnect(t)
        \/ WorkerDisconnect(t)
        \/ WorkerParse(t)
        \/ WorkerExecute(t)
        \/ ShowVersionParsed(t)
        \/ ShowVersionExecuted(t)
        \/ LldpParsed(t)
        \/ CdpParsed(t)
        \/ CombinedLldpParsed(t)
        \/ CombinedCdpParsed(t)

Spec == Init /\ [][Next]_vars

\* The discovery specification: one task runs the discovery operations on
\* one device, against every payload of LldpOutcomes and CdpOutcomes.
InitDiscovery ==
    /\ InitCommon
    /\ testbed = GoodTestbed
    /\ topology \in [lldp : LldpOutcomes, cdp : CdpOutcomes]

NextDiscovery ==
    \/ DiscoverLldp(1, "r1")
    \/ DiscoverCdp(1, "r1")
    \/ DiscoverCombined(1, "r1")
    \/ GetConnectionResume(1)
    \/ WorkerConnect(1)
    \/ WorkerParse(1)
    \/ LldpParsed(1)
    \/ CdpParsed(1)
    \/ CombinedLldpParsed(1)
    \/ CombinedCdpParsed(1)

SpecDiscovery == InitDiscovery /\ [][NextDiscovery]_vars

\* The scheduling specification: one task calls the operations that between
\* them submit all four blocking calls.  The event loop resumes a coroutine
\* whose future is done, so the resuming steps are weakly fair.  Nothing makes
\* a pool thread finish: run_in_thread waits for the device library's call
\* as long as that call takes, so the worker steps carry no fairness, nor do
\* the clients' calls.
NextScheduling ==
    \/ GetConnection(1, "r1")
    \/ CleanupConnection(1, "r1")
    \/ ShowVersion(1, "r1")
    \/ DiscoverCombined(1, "r1")
    \/ GetConnectionResume(1)
    \/ CleanupResume(1)
    \/ WorkerConnect(1)
    \/ WorkerDisconnect(1)
    \/ WorkerParse(1)
    \/ WorkerExecute(1)
    \/ ShowVersionParsed(1)
    \/ ShowVersionExecuted(1)
    \/ CombinedLldpParsed(1)
    \/ CombinedCdpParsed(1)

EventLoopFairness ==
    /\ WF_vars(GetConnectionResume(1))
    /\ WF_vars(CleanupResume(1))
    /\ WF_vars(ShowVersionParsed(1))
    /\ WF_vars(ShowVersionExecuted(1))
    /\ WF_vars(CombinedLldpParsed(1))
    /\ WF_vars(CombinedCdpParsed(1))

SpecScheduling == Init /\ [][NextScheduling]_vars /\ EventLoopFairness

\* ------------------------------------------------------------ vocabulary of the claims
ExposedOps ==
    {"list_devices", "show_version", "discover_neighbors_lldp", "discover_neighbors_cdp",
     "discover_neighbors_combined"}
DeviceOps == ExposedOps \ {"list_devices"}
DiscoveryOps == DeviceOps \ {"show_version"}
GetConnectionCallers == DeviceOps \cup {"get_connection"}

Called(tk, fn) == \E i \in 1..Len(tk.log) : tk.log[i] = fn
HasReturned(tk) == tk.pc = "done" /\ tk.status = "returned"
HasKey(r, k) == k \in DOMAIN r

\* Task t is inside get_connection(d), suspended on the connect it submitted.
Connecting(t, d) == tasks[t].pc = "connect" /\ tasks[t].arg = d

\* Task t is inside cleanup_connection(d), suspended on disconnect.
Disconnecting(t, d) == tasks[t].pc = "disconnect" /\ tasks[t].arg = d

\* ------------------------------------------------------------ C1
\* C1: get_connection calls for one uncached device that are all in progress
\* together (each started before any of them completed) cause exactly one
\* connect call between them, and the callers that hold a session for one
\* name hold the same one.
C1_SingleFlight ==
    \A d \in Known :
        /\ Cardinality({t \in Tasks : Connecting(t, d) /\ Called(tasks[t], "connect")}) <= 1
        /\ \A t1, t2 \in Tasks :
              (tasks[t1].arg = d /\ tasks[t2].arg = d
               /\ tasks[t1].device # NoDevice /\ tasks[t2].device # NoDevice)
              => tasks[t1].device = tasks[t2].device

\* ------------------------------------------------------------ C2
\* C2: every device has at most one live session, and when no get_connection
\* or cleanup_connection for the name is under way a live session is the one
\* the cache holds.
C2_OneLiveSessionCached ==
    \A d \in Known :
        /\ live[d] <= 1
        /\ (live[d] = 1 /\ \A t \in Tasks : ~Connecting(t, d) /\ ~Disconnecting(t, d))
           => d \in DOMAIN connections

\* ------------------------------------------------------------ C3
\* Task t begins, in this step, an operation that calls get_connection(d).
StartsGetConnection(t, d) ==
    /\ tasks'[t].opsDone = tasks[t].opsDone + 1
    /\ tasks'[t].op \in GetConnectionCallers
    /\ tasks'[t].arg = d

\* C3: once get_connection has returned session S for a device and no step of
\* cleanup_connection for that name has run since, a get_connection call that
\* starts gets the identical S at once and submits no connect call.
C3_CachedSessionReused ==
    [][\A t \in Tasks, d \in Known :
          (lastReturned[d] # NoDevice /\ StartsGetConnection(t, d))
          => /\ tasks'[t].device = lastReturned[d]
             /\ ~Called(tasks'[t], "connect")
             /\ lastReturned'[d] = lastReturned[d]]_vars

\* One direct call connected and returned a session; a later direct call for
\* the same name returned the same session without calling anything.
C3_Witness ==
    \E t1, t2 \in Tasks :
        /\ t1 # t2
        /\ tasks[t1].op = "get_connection" /\ tasks[t2].op = "get_connection"
        /\ tasks[t1].arg = tasks[t2].arg
        /\ HasReturned(tasks[t1]) /\ HasReturned(tasks[t2])
        /\ Called(tasks[t1], "connect") /\ tasks[t2].log = <<>>
        /\ tasks[t1].result.session = tasks[t2].result.session
        /\ lastReturned[tasks[t1].arg] = tasks[t2].result.session

\* ------------------------------------------------------------ C4
Structured(r) == HasKey(r, "success") \/ HasKey(r, "error") \/ HasKey(r, "devices")

\* C4: an exposed operation never ends by raising; while it has not ended it
\* is awaiting a blocking call, and whatever that call's outcome it ends by
\* returning a structured result.
C4_OperationsTotal ==
    \A t \in Tasks :
        tasks[t].op \in ExposedOps
        => /\ tasks[t].status # "raised"
           /\ tasks[t].pc # "done" => tasks[t].call.st \in {"running", "done"}
           /\ tasks[t].pc = "done" => tasks[t].status = "returned" /\ Structured(tasks[t].result)

\* show_version whose parse signalled empty-parse and whose fallback execute
\* raised: the fault was turned into a failure result.
C4_Witness ==
    \E t \in Tasks :
        /\ tasks[t].op = "show_version"
        /\ tasks[t].log = <<"connect", "parse", "execute">>
        /\ HasReturned(tasks[t])
        /\ tasks[t].result = Failure(<<"Connection or execution error: ", "ExecuteError">>)

\* ------------------------------------------------------------ C5
\* C5: an operation called with a name the testbed does not hold returns, in
\* the step that starts it, a failure whose error is "Device not found: <name>",
\* having submitted no blocking call and with the session cache and the
\* sessions left as they were.
C5_UnknownDeviceNoContact ==
    [][\A t \in Tasks :
          (/\ tasks'[t].opsDone = tasks[t].opsDone + 1
           /\ tasks'[t].op \in DeviceOps
           /\ tasks'[t].arg \notin Known)
          => /\ HasReturned(tasks'[t])
             /\ HasKey(tasks'[t].result, "error")
             /\ tasks'[t].result.error = <<"Device not found: ", tasks'[t].arg>>
             /\ ~HasKey(tasks'[t].result, "data") /\ ~HasKey(tasks'[t].result, "neighbors")
             /\ tasks'[t].log = <<>>
             /\ tasks'[t].device = NoDevice
             /\ connections' = connections
             /\ live' = live]_vars

\* Combined discovery of an unknown name answered while the cache holds a
\* session of a known device.
C5_Witness ==
    \E t \in Tasks :
        /\ tasks[t].op = "discover_neighbors_combined"
        /\ tasks[t].arg \in Unknown
        /\ HasReturned(tasks[t])
        /\ tasks[t].result = Failure(<<"Device not found: ", tasks[t].arg>>)
        /\ DOMAIN connections # {}

\* ------------------------------------------------------------ C6
\* A result that reports a failure: it carries an error, or success = false.
IsFailure(r) == HasKey(r, "error") \/ (HasKey(r, "success") /\ r.success = FALSE)

\* C6: every failure result an exposed operation returns has the success
\* field, set to false, and the error field.
C6_FailureShape ==
    \A t \in Tasks :
        (tasks[t].op \in ExposedOps /\ HasReturned(tasks[t]) /\ IsFailure(tasks[t].result))
        => /\ HasKey(tasks[t].result, "success")
           /\ tasks[t].result.success = FALSE
           /\ HasKey(tasks[t].result, "error")

\* ------------------------------------------------------------ C7
\* C7: a result of show_version or of a discovery operation with success =
\* false has neither data nor neighbors, and one with data or neighbors has
\* success = true and no error.
C7_NoDataWithFailure ==
    \A t \in Tasks :
        (tasks[t].op \in DeviceOps /\ HasReturned(tasks[t]))
        => LET r == tasks[t].result IN
           /\ (HasKey(r, "success") /\ r.success = FALSE)
              => ~HasKey(r, "data") /\ ~HasKey(r, "neighbors")
           /\ (HasKey(r, "data") \/ HasKey(r, "neighbors"))
              => HasKey(r, "success") /\ r.success = TRUE /\ ~HasKey(r, "error")

\* One show_version failed on a parse fault while a combined discovery
\* returned neighbors.
C7_Witness ==
    \E t1, t2 \in Tasks :
        /\ tasks[t1].op = "show_version" /\ HasReturned(tasks[t1])
        /\ tasks[t1].result = Failure(<<"ParseError">>)
        /\ tasks[t2].op = "discover_neighbors_combined" /\ HasReturned(tasks[t2])
        /\ HasKey(tasks[t2].result, "neighbors")
        /\ Len(tasks[t2].result.neighbors) > 0

\* ------------------------------------------------------------ C8
Records(seq) == {seq[i] : i \in 1..Len(seq)}

NoDuplicateKeys(neighbors) ==
    \A i, j \in 1..Len(neighbors) :
        i # j => NeighborKey(neighbors[i]) # NeighborKey(neighbors[j])

\* C8 as stated: in the neighbors of every discovery result, of the two
\* single-protocol operations as of the combined one, no two records share
\* (local_interface, remote_device, remote_interface).
C8_UniqueTriples ==
    \A t \in Tasks :
        (tasks[t].op \in DiscoveryOps /\ HasReturned(tasks[t])
         /\ HasKey(tasks[t].result, "neighbors"))
        => NoDuplicateKeys(tasks[t].result.neighbors)

\* C8 as amended: in the neighbors of every result of
\* discover_neighbors_combined no two records share the identity triple.
C8_CombinedUniqueTriples ==
    \A t \in Tasks :
        (tasks[t].op = "discover_neighbors_combined" /\ HasReturned(tasks[t])
         /\ HasKey(tasks[t].result, "neighbors"))
        => NoDuplicateKeys(tasks[t].result.neighbors)

\* A combined result of two or more records out of extractions that held a
\* repeated triple.
C8_Witness ==
    \E t \in Tasks :
        /\ tasks[t].op = "discover_neighbors_combined" /\ HasReturned(tasks[t])
        /\ HasKey(tasks[t].result, "neighbors")
        /\ ~NoDuplicateKeys(tasks[t].lldp_neighbors \o tasks[t].cdp_neighbors)
        /\ Len(tasks[t].result.neighbors) >= 2

\* ------------------------------------------------------------ C9
\* The positions of s that hold the first record of their identity triple.
FirstOccurrence(s, i) == \A j \in 1..(i - 1) : NeighborKey(s[j]) # NeighborKey(s[i])

\* The subsequence of s at those positions.
RECURSIVE FirstOccurrencesFrom(_, _)
FirstOccurrencesFrom(s, i) ==
    IF i > Len(s) THEN <<>>
    ELSE (IF FirstOccurrence(s, i) THEN <<s[i]>> ELSE <<>>) \o FirstOccurrencesFrom(s, i + 1)

ScenarioTopology ==
    [lldp |-> Ok(LldpOutput(<<Intf("Gi0/0", IntfData(<<PortData(<<NbrA>>)>>))>>)),
     cdp |-> Ok(CdpOutput(<<CdpA>>))]

ScenarioNeighbor ==
    [protocol |-> "lldp", local_interface |-> "Gi0/0", remote_device |-> "sw1",
     remote_interface |-> "p1", management_address |-> "unknown", platform |-> <<>>]

\* C9: the neighbors of a combined result are the records of L followed by C
\* that are the first of their identity triple, in that order, and
\* total_neighbors is their number; in the spec's scenario that is the one
\* LLDP record with management_address "unknown" and an empty platform.
C9_MergeKeepsFirstSeen ==
    \A t \in Tasks :
        (tasks[t].op = "discover_neighbors_combined" /\ HasReturned(tasks[t])
         /\ HasKey(tasks[t].result, "neighbors"))
        => LET r == tasks[t].result
               LC == tasks[t].lldp_neighbors \o tasks[t].cdp_neighbors
           IN /\ r.neighbors = FirstOccurrencesFrom(LC, 1)
              /\ r.total_neighbors = Len(r.neighbors)
              /\ topology = ScenarioTopology
                 => r.neighbors = <<ScenarioNeighbor>> /\ r.total_neighbors = 1

\* A combined result in which a link reported by both protocols survived as
\* the LLDP record while CDP added a record of its own.
C9_Witness ==
    \E t \in Tasks :
        /\ tasks[t].op = "discover_neighbors_combined" /\ HasReturned(tasks[t])
        /\ HasKey(tasks[t].result, "neighbors")
        /\ \E i \in 1..Len(tasks[t].lldp_neighbors), j \in 1..Len(tasks[t].cdp_neighbors) :
              /\ NeighborKey(tasks[t].lldp_neighbors[i]) = NeighborKey(tasks[t].cdp_neighbors[j])
              /\ tasks[t].cdp_neighbors[j] \notin Records(tasks[t].result.neighbors)
        /\ \E j \in 1..Len(tasks[t].cdp_neighbors) :
              tasks[t].cdp_neighbors[j] \in Records(tasks[t].result.neighbors)

\* ------------------------------------------------------------ C10
\* C10: a combined discovery that obtained its session returns success, and
\* when one protocol's extraction ended in empty-parse or a fault while the
\* other's ran through, every record of the other's extraction (less its own
\* repeated triples) is in the result; with LLDP empty-parse and two distinct
\* CDP records the result is exactly those two.
C10_PartialFailureIsolated ==
    \A t \in Tasks :
        (tasks[t].op = "discover_neighbors_combined" /\ tasks[t].pc = "done"
         /\ tasks[t].device # NoDevice)
        => LET r == tasks[t].result
               L == tasks[t].lldp_neighbors
               C == tasks[t].cdp_neighbors
           IN /\ HasReturned(tasks[t]) /\ HasKey(r, "success") /\ r.success = TRUE
              /\ (tasks[t].lldp_end # "ok" /\ tasks[t].cdp_end = "ok")
                 => Records(FirstOccurrencesFrom(C, 1)) \subseteq Records(r.neighbors)
              /\ (tasks[t].cdp_end # "ok" /\ tasks[t].lldp_end = "ok")
                 => Records(FirstOccurrencesFrom(L, 1)) \subseteq Records(r.neighbors)
              /\ (tasks[t].lldp_end = "empty" /\ tasks[t].cdp_end = "ok"
                  /\ Len(C) = 2 /\ NoDuplicateKeys(C))
                 => r.neighbors = C

\* ------------------------------------------------------------ C11
\* The records of a result that protocol proto produced.
OfProtocol(neighbors, proto) ==
    {r \in Records(neighbors) : r.protocol = proto}

\* C11: in a result of discover_neighbors_combined, a protocol whose extraction
\* ended in empty-parse or in a fault, a fault part-way through normalization
\* included, has no record.
C11_FailedProtocolContributesNothing ==
    \A t \in Tasks :
        (tasks[t].op = "discover_neighbors_combined" /\ HasReturned(tasks[t])
         /\ HasKey(tasks[t].result, "neighbors"))
        => /\ tasks[t].lldp_end # "ok" => OfProtocol(tasks[t].result.neighbors, "lldp") = {}
           /\ tasks[t].cdp_end # "ok" => OfProtocol(tasks[t].result.neighbors, "cdp") = {}

\* ------------------------------------------------------------ C12
\* The last element of an error text: the text of the exception it reports.
ErrorText(r) == r.error[Len(r.error)]

\* Positions of fn in a call log.
CallsOf(log, fn) == {i \in 1..Len(log) : log[i] = fn}

\* C12: show_version submits execute only in the step that handles a parse
\* that signalled empty-parse, after the one parse call; a parse that returned
\* ends the operation with success and the parsed data and no execute call; a
\* parse that raised anything else ends it with a failure carrying the error
\* text; an execute that returned ends it with success, the raw text and a
\* note; an execute that raised ends it with a failure carrying the error text.
C12_ParseThenFallback ==
    [][\A t \in Tasks :
          (/\ tasks[t].op = "show_version"
           /\ tasks'[t] # tasks[t]
           /\ tasks'[t].opsDone = tasks[t].opsDone)
          => LET tk == tasks[t]
                 after == tasks'[t]
                 out == tk.call.out
                 r == after.result
             IN /\ (Called(after, "execute") /\ ~Called(tk, "execute"))
                   => /\ tk.pc = "parse" /\ tk.call.st = "done" /\ out.kind = "empty"
                      /\ Cardinality(CallsOf(after.log, "parse")) = 1
                      /\ CallsOf(after.log, "execute") = {Len(after.log)}
                /\ (tk.pc = "parse" /\ tk.call.st = "done" /\ out.kind = "ok")
                   => /\ HasReturned(after) /\ ~Called(after, "execute")
                      /\ HasKey(r, "success") /\ r.success = TRUE
                      /\ HasKey(r, "data") /\ r.data = out.val
                /\ (tk.pc = "parse" /\ tk.call.st = "done" /\ out.kind = "empty")
                   => /\ after.pc = "execute" /\ after.status = "none"
                      /\ after.call.fn = "execute" /\ after.call.st = "running"
                /\ (tk.pc = "parse" /\ tk.call.st = "done" /\ out.kind = "fault")
                   => /\ HasReturned(after) /\ ~Called(after, "execute")
                      /\ HasKey(r, "success") /\ r.success = FALSE
                      /\ HasKey(r, "error") /\ ErrorText(r) = out.val
                /\ (tk.pc = "execute" /\ tk.call.st = "done" /\ out.kind = "ok")
                   => /\ HasReturned(after)
                      /\ HasKey(r, "success") /\ r.success = TRUE /\ ~HasKey(r, "error")
                      /\ HasKey(r, "data") /\ r.data = [raw_output |-> out.val]
                      /\ HasKey(r, "note")
                /\ (tk.pc = "execute" /\ tk.call.st = "done" /\ out.kind # "ok")
                   => /\ HasReturned(after)
                      /\ HasKey(r, "success") /\ r.success = FALSE
                      /\ HasKey(r, "error") /\ ErrorText(r) = out.val]_vars

\* show_version whose parse signalled empty-parse returned the raw text with
\* the fallback note.
C12_Witness ==
    \E t \in Tasks :
        /\ tasks[t].op = "show_version" /\ HasReturned(tasks[t])
        /\ tasks[t].log = <<"connect", "parse", "execute">>
        /\ HasKey(tasks[t].result, "note")
        /\ tasks[t].result.success = TRUE
        /\ tasks[t].result.data = [raw_output |-> "raw text"]

\* ------------------------------------------------------------ C13
\* Task t begins cleanup_connection(d) in this step.
StartsCleanup(t, d) ==
    /\ tasks'[t].opsDone = tasks[t].opsDone + 1
    /\ tasks'[t].op = "cleanup_connection"
    /\ tasks'[t].arg = d

\* Task t, inside cleanup_connection(d), goes on in this step after a
\* disconnect that returned.
CleanupCompletes(t, d) ==
    /\ Disconnecting(t, d)
    /\ tasks[t].call.st = "done" /\ tasks[t].call.out.kind = "ok"
    /\ tasks'[t] # tasks[t]

\* Every entry of the cache but d's is the same before and after the step.
OthersUnchanged(d) ==
    /\ DOMAIN connections' \ {d} = DOMAIN connections \ {d}
    /\ \A n \in DOMAIN connections \ {d} : connections'[n] = connections[n]

\* C13: cleanup_connection(d) with d cached submits one disconnect for d and
\* leaves the cache as it is until the disconnect has returned, and then the
\* cache has no entry for d and every other entry is unchanged; with d not
\* cached it ends at once, having submitted nothing and changed nothing.
C13_CleanupFrame ==
    [][\A t \in Tasks, d \in Names :
          /\ (StartsCleanup(t, d) /\ d \in DOMAIN connections)
             => /\ Disconnecting(t, d)' /\ tasks'[t].log = <<"disconnect">>
                /\ tasks'[t].call.fn = "disconnect" /\ tasks'[t].call.st = "running"
                /\ connections' = connections
          /\ (StartsCleanup(t, d) /\ d \notin DOMAIN connections)
             => /\ tasks'[t].pc = "done" /\ tasks'[t].log = <<>>
                /\ connections' = connections /\ live' = live
          /\ CleanupCompletes(t, d)
             => /\ tasks'[t].pc = "done" /\ tasks'[t].log = <<"disconnect">>
                /\ d \notin DOMAIN connections'
                /\ OthersUnchanged(d)]_vars

\* A cleanup of one device returned after its disconnect while the cache
\* holds the session of another device.
C13_Witness ==
    \E t \in Tasks :
        /\ tasks[t].op = "cleanup_connection" /\ HasReturned(tasks[t])
        /\ tasks[t].log = <<"disconnect">>
        /\ tasks[t].arg \notin DOMAIN connections
        /\ DOMAIN connections # {}

\* ------------------------------------------------------------ C14
\* The combined discovery that tk has ended, or the one before it, got its
\* two answers from the parser.
ParsedTwice(log) == Cardinality(CallsOf(log, "parse")) = 2

\* C14: a discover_neighbors_combined call that follows another one for the
\* same device, the parser answering both with the same payloads, returns the
\* result the first returned: the same records in the same order and the same
\* total_neighbors, whether the first call connected or found the session cached.
C14_CombinedIdempotent ==
    \A t \in Tasks :
        (/\ tasks[t].op = "discover_neighbors_combined" /\ HasReturned(tasks[t])
         /\ tasks[t].previous.op = "discover_neighbors_combined"
         /\ tasks[t].previous.arg = tasks[t].arg
         /\ ParsedTwice(tasks[t].log) /\ ParsedTwice(tasks[t].previous.log))
        => /\ tasks[t].result = tasks[t].previous.result
           /\ tasks[t].result.neighbors = tasks[t].previous.result.neighbors
           /\ tasks[t].result.total_neighbors = tasks[t].previous.result.total_neighbors

\* A call that found the session cached returned the two records that the
\* call before it, which connected, had returned.
C14_Witness ==
    \E t \in Tasks :
        /\ tasks[t].op = "discover_neighbors_combined" /\ HasReturned(tasks[t])
        /\ tasks[t].previous.op = "discover_neighbors_combined"
        /\ tasks[t].previous.log = <<"connect", "parse", "parse">>
        /\ tasks[t].log = <<"parse", "parse">>
        /\ tasks[t].result.total_neighbors = 2
        /\ tasks[t].result = tasks[t].previous.result

\* ------------------------------------------------------------ C15
LldpCommand == "show lldp neighbors detail"
CdpCommand == "show cdp neighbors detail"

\* The step takes task record tk to after by submitting a parse of cmd.
SubmitsParse(tk, after, cmd) ==
    /\ after.call.fn = "parse" /\ after.call.cmd = cmd /\ after.call.st = "running"
    /\ ~(tk.call.cmd = cmd /\ tk.opsDone = after.opsDone)

\* C15: in a discover_neighbors_combined call the LLDP parse is submitted by
\* a step that has the session from get_connection; the CDP parse is submitted
\* by the step that ends the LLDP extraction (returned, empty-parse or fault)
\* of the same call, after the LLDP parse call is done; so while the CDP parse
\* is in flight the LLDP one is over.
C15_LldpBeforeCdp ==
    [][\A t \in Tasks :
          (tasks'[t].op = "discover_neighbors_combined" /\ tasks'[t] # tasks[t])
          => LET tk == tasks[t]
                 after == tasks'[t]
             IN /\ SubmitsParse(tk, after, LldpCommand)
                   => /\ after.device = Device(after.arg)
                      /\ after.arg \in DOMAIN connections'
                      /\ after.device = connections'[after.arg]
                      /\ tk.pc = "connect" => tk.call.st = "done" /\ tk.call.out.kind = "ok"
                      /\ after.log \in {<<"parse">>, <<"connect", "parse">>}
                      /\ after.lldp_end = "none" /\ after.cdp_end = "none"
                /\ SubmitsParse(tk, after, CdpCommand)
                   => /\ tk.opsDone = after.opsDone
                      /\ tk.call.fn = "parse" /\ tk.call.cmd = LldpCommand
                      /\ tk.call.st = "done"
                      /\ tk.lldp_end = "none"
                      /\ after.lldp_end \in {"ok", "empty", "fault"}
                      /\ after.device = Device(after.arg)
                      /\ after.log \in {<<"parse", "parse">>, <<"connect", "parse", "parse">>}
                /\ (after.call.cmd = CdpCommand /\ after.call.st \in {"running", "done"})
                   => after.lldp_end # "none"
                /\ after.call.cmd = LldpCommand => after.cdp_end = "none"]_vars

\* The CDP parse of a call is in flight after the LLDP extraction of that
\* call ended in a fault.
C15_Witness ==
    \E t \in Tasks :
        /\ tasks[t].op = "discover_neighbors_combined"
        /\ tasks[t].call.cmd = CdpCommand /\ tasks[t].call.st = "running"
        /\ tasks[t].lldp_end = "fault"
        /\ tasks[t].log = <<"connect", "parse", "parse">>

\* ------------------------------------------------------------ C16
\* Task t, inside get_connection, goes on in this step after a connect that
\* raised.
ConnectFailed(t) ==
    /\ tasks[t].pc = "connect"
    /\ tasks[t].call.st = "done" /\ tasks[t].call.out.kind = "fault"
    /\ tasks'[t] # tasks[t]

\* C16: the step that follows a failed connect ends the operation, which has
\* called connect once and nothing else; an exposed operation returns a
\* failure with success = false and the error text; the step puts no entry in
\* the cache, so a device not cached before is not cached after; and an
\* operation that starts for a known device that is not cached submits a
\* connect of its own.
C16_ConnectFailureNotCached ==
    [][\A t \in Tasks :
          /\ ConnectFailed(t)
             => LET after == tasks'[t]
                    r == after.result
                IN /\ after.pc = "done" /\ after.log = <<"connect">>
                   /\ after.device = NoDevice
                   /\ after.op \in ExposedOps
                      => /\ HasReturned(after)
                         /\ HasKey(r, "success") /\ r.success = FALSE
                         /\ HasKey(r, "error") /\ ErrorText(r) = tasks[t].call.out.val
                         /\ ~HasKey(r, "data") /\ ~HasKey(r, "neighbors")
                   /\ connections' = connections
                   /\ after.arg \notin DOMAIN connections => after.arg \notin DOMAIN connections'
          /\ \A d \in Known :
                (StartsGetConnection(t, d) /\ d \notin DOMAIN connections)
                => /\ Connecting(t, d)' /\ tasks'[t].log = <<"connect">>
                   /\ tasks'[t].call.fn = "connect" /\ tasks'[t].call.st = "running"]_vars

\* A combined discovery has failed on its connect, the device is not cached,
\* and a later operation on the same device has a connect of its own in flight.
C16_Witness ==
    \E t1, t2 \in Tasks :
        /\ tasks[t1].op = "discover_neighbors_combined" /\ HasReturned(tasks[t1])
        /\ tasks[t1].log = <<"connect">>
        /\ tasks[t1].result = Failure(<<"ConnectionError">>)
        /\ tasks[t1].arg \notin DOMAIN connections
        /\ tasks[t2].arg = tasks[t1].arg
        /\ Connecting(t2, tasks[t1].arg) /\ tasks[t2].call.st = "running"
        /\ tasks[t1].opsDone + tasks[t2].opsDone = 2

\* ------------------------------------------------------------ C17
\* Task t awaits a blocking call that is still in the worker pool.
Awaiting(t) == tasks[t].call.st = "running"

\* The operation of task t has returned a failure of the timeout kind.
TimedOut(t) ==
    /\ HasReturned(tasks[t])
    /\ HasKey(tasks[t].result, "error")
    /\ ErrorText(tasks[t].result) = "TimeoutError"

\* C17: an operation that awaits a blocking call (connect, disconnect, parse
\* or execute) does not await it for ever: the call completes, or the
\* operation returns a failure of the timeout kind.
C17_OffloadTimesOut ==
    \A t \in Tasks : Awaiting(t) ~> (~Awaiting(t) \/ TimedOut(t))

\* ------------------------------------------------------------ C18
\* The set of the management-address keys of a CDP entry.
MgmtKeys(entry) ==
    IF entry.has_mgmt
    THEN {entry.management_addresses[i] : i \in 1..Len(entry.management_addresses)}
    ELSE {}

\* C18: the management_address of every CDP record of a combined result is
\* "unknown" when its entry has no management-address key and one of the keys
\* otherwise, and the records of entries with the same set of keys, whatever
\* the order the payload presents them in, have the same management_address.
C18_ManagementAddressBySet ==
    \A t \in Tasks :
        (/\ tasks[t].op = "discover_neighbors_combined" /\ HasReturned(tasks[t])
         /\ HasKey(tasks[t].result, "neighbors")
         /\ topology.cdp.kind = "ok" /\ tasks[t].cdp_end = "ok")
        => LET index == topology.cdp.val.index
               C == tasks[t].cdp_neighbors
               kept == {i \in 1..Len(C) : C[i] \in Records(tasks[t].result.neighbors)}
           IN /\ Len(C) = Len(index)
              /\ \A i \in kept :
                    IF MgmtKeys(index[i]) = {}
                    THEN C[i].management_address = "unknown"
                    ELSE C[i].management_address \in MgmtKeys(index[i])
              /\ \A i, j \in kept :
                    MgmtKeys(index[i]) = MgmtKeys(index[j])
                    => C[i].management_address = C[j].management_address

\* ------------------------------------------------------------ C19
\* In this step get_connection(d) returns a session to task t.
GetsSession(t, d) ==
    /\ tasks'[t].arg = d
    /\ tasks'[t].device # NoDevice
    /\ tasks[t].device = NoDevice \/ tasks'[t].opsDone # tasks[t].opsDone

\* In this step the cleanup_connection(d) of task t ends.
CleanupEnds(t, d) ==
    /\ tasks'[t].op = "cleanup_connection" /\ tasks'[t].arg = d
    /\ tasks'[t].pc = "done"
    /\ tasks'[t] # tasks[t]

\* C19: when get_connection returns the session of d, no cleanup_connection
\* has a disconnect of it under way or done and not yet followed by the
\* removal of the entry, and the session is connected; and when a
\* cleanup_connection ends, a session the cache holds for d is connected.
C19_ReturnedSessionConnected ==
    [][\A t \in Tasks, d \in Known :
          /\ GetsSession(t, d)
             => /\ \A t2 \in Tasks : ~Disconnecting(t2, d)
                /\ live'[d] > 0
          /\ CleanupEnds(t, d)
             => (d \in DOMAIN connections' => live'[d] > 0)]_vars

\* ------------------------------------------------------------ C20
\* C20: overlapping cleanup_connection calls for one cached name have at most
\* one disconnect between them, none of them ends in the KeyError of removing
\* an entry that is gone, and once two of them have returned the cache has no
\* entry for the name.
C20_OverlappingCleanups ==
    \A d \in Known :
        /\ Cardinality({t \in Tasks : Disconnecting(t, d)}) <= 1
        /\ \A t \in Tasks :
              (tasks[t].op = "cleanup_connection" /\ tasks[t].arg = d
               /\ tasks[t].pc = "done" /\ tasks[t].status = "raised")
              => tasks[t].result.exception # "KeyError"
        /\ \A t1, t2 \in Tasks :
              (/\ t1 # t2
               /\ tasks[t1].op = "cleanup_connection" /\ tasks[t2].op = "cleanup_connection"
               /\ tasks[t1].arg = d /\ tasks[t2].arg = d
               /\ HasReturned(tasks[t1]) /\ HasReturned(tasks[t2]))
              => d \notin DOMAIN connections

====
